---- MODULE Spec2Model ----
(***************************************************************************)
(* Egyptian Ratscrew simulation (egyptian-ratscrew.ipynb): new_deck, deal, *)
(* slappable and the turn loop of simulate_game.                           *)
(*                                                                         *)
(* A hand is a deque written left to right; pop() and append() work on the *)
(* right end (the top), extendleft() on the left end (the bottom).  The    *)
(* pile is a list whose last element is the most recently played card.     *)
(* The loop counter `turn` is returned but never read by the game logic    *)
(* and grows without bound, so it is not part of the state.                *)
(***************************************************************************)
EXTENDS Integers, Sequences, FiniteSets, TLC

VARIABLES num_players, deck, hands, pile, chances, challenger, hand_index,
          pc, result

vars == <<num_players, deck, hands, pile, chances, challenger, hand_index,
          pc, result>>

\* Bounds of the model.
MaxPlayers == 3
DeckSize == 6
MaxPileLen == 3

\* Python's None (challenger, and the result before simulate_game returns).
None == -1

Card(face, suite) == [face |-> face, suite |-> suite]

\* Variant of royal: the values of King and Ace exchanged.
royal_king_ace_swapped == [Jack |-> 1, Queen |-> 2, King |-> 4, Ace |-> 3]

royal == [Jack |-> 1, Queen |-> 2, King |-> 3, Ace |-> 4]

\* chain(range(2, 10 + 1), royal)
Faces == <<"2", "3", "4", "5", "6", "7", "8", "9", "10",
           "Jack", "Queen", "King", "Ace">>

Suites == <<"Clubs", "Diamonds", "Hearts", "Spades">>

new_deck ==
    [i \in 1..(Len(Faces) * Len(Suites)) |->
        Card(Faces[((i - 1) \div Len(Suites)) + 1],
             Suites[((i - 1) % Len(Suites)) + 1])]

\* The game is played with DeckSize cards of new_deck.  Two selections, each
\* listed in the order its cards are added as DeckSize grows:
\* one with every royal,    J♣ Q♣ K♣ A♣ 2♣ 2♦ 3♣ J♦ 3♦ Q♦,
\* one with pairs of cards,  Q♣ Q♦ K♣ 2♣ 2♦ 3♣ J♣ A♣ 3♦ J♦.
Stock == <<37, 41, 45, 49, 1, 2, 5, 38, 6, 42>>

PairStock == <<41, 42, 45, 1, 2, 5, 37, 49, 6, 38>>

game_deck == [i \in 1..DeckSize |-> new_deck[Stock[i]]]

pairs_deck == [i \in 1..DeckSize |-> new_deck[PairStock[i]]]

\* A selection of one card more with two pairs of royals, for the question
\* of termination: Q♣ Q♦ K♣ 2♣ 2♦ 3♣ K♦ A♣ J♣ 3♦.
LongStock == <<41, 42, 45, 1, 2, 5, 46, 49, 37, 6>>

long_deck == [i \in 1..(DeckSize + 1) |-> new_deck[LongStock[i]]]

Range(s) == {s[i] : i \in DOMAIN s}

Last(s) == s[Len(s)]

\* list.pop() / deque.pop(): the sequence without its right-most element.
Front(s) == SubSeq(s, 1, Len(s) - 1)

\* random.shuffle(deck): every ordering of the deck is a possible outcome.
RECURSIVE Orderings(_)
Orderings(S) ==
    IF S = {} THEN {<<>>}
    ELSE UNION {{<<x>> \o p : p \in Orderings(S \ {x})} : x \in S}

shuffle(d) == Orderings(Range(d))

\* Variant of reversed: the pile is handed over as it lies.
reversed_same_order(s) == s

\* reversed(pile), built element by element.
RECURSIVE reversed(_)
reversed(s) ==
    IF s = <<>> THEN <<>> ELSE <<Last(s)>> \o reversed(Front(s))

\* deque.extendleft(iterable): appendleft of every element in turn.
RECURSIVE extendleft(_, _)
extendleft(d, it) ==
    IF it = <<>> THEN d ELSE extendleft(<<Head(it)>> \o d, Tail(it))

\* The loop of deal over cycle(hands): hand i takes deck.pop(), then the
\* next hand, until the deck is empty.
RECURSIVE deal_cycle(_, _, _, _)
deal_cycle(d, hs, i, n) ==
    IF d = <<>> THEN hs
    ELSE deal_cycle(Front(d), [hs EXCEPT ![i] = Append(@, Last(d))],
                    (i + 1) % n, n)

\* Variant of deal: the first card goes to the second hand.
deal_from_second(d, n) ==
    IF n < 1 THEN [hands |-> <<>>, deck |-> d]
    ELSE [hands |-> deal_cycle(d, [i \in 0..(n - 1) |-> <<>>], 1 % n, n),
          deck  |-> <<>>]

\* deal(deck, num_players) for an already shuffled deck: the hands returned
\* and what is left of the deck.  With range(num_players) empty there are no
\* hands, cycle(hands) is empty and the loop body never runs.
deal(d, n) ==
    IF n < 1 THEN [hands |-> <<>>, deck |-> d]
    ELSE [hands |-> deal_cycle(d, [i \in 0..(n - 1) |-> <<>>], 0, n),
          deck  |-> <<>>]

\* Variant of slappable: the sandwich test needs a fourth card.
slappable_late_sandwich(p) ==
    \/ Len(p) > 1 /\ p[Len(p)].face = p[Len(p) - 1].face
    \/ Len(p) > 3 /\ p[Len(p)].face = p[Len(p) - 2].face

slappable(p) ==
    \/ Len(p) > 1 /\ p[Len(p)].face = p[Len(p) - 1].face
    \/ Len(p) > 2 /\ p[Len(p)].face = p[Len(p) - 2].face

Players == 0..(num_players - 1)

\* sum(len(hand) > 0 for hand in hands)
NonEmptyHands == Cardinality({i \in Players : hands[i] # <<>>})

\* Variant of argmax: the first index of the minimum (np.argmin).
argmin(hs) ==
    CHOOSE i \in DOMAIN hs :
        /\ \A j \in DOMAIN hs : Len(hs[j]) >= Len(hs[i])
        /\ \A j \in DOMAIN hs : j < i => Len(hs[j]) > Len(hs[i])

\* np.argmax([len(h) for h in hands]): the first index of the maximum.
argmax(hs) ==
    CHOOSE i \in DOMAIN hs :
        /\ \A j \in DOMAIN hs : Len(hs[j]) <= Len(hs[i])
        /\ \A j \in DOMAIN hs : j < i => Len(hs[j]) < Len(hs[i])

\* cycle(range(num_players))
NextIndex == (hand_index + 1) % num_players

\* The state on entry to simulate_game, new_deck() returning one of ds.
Start(ds) ==
    /\ num_players \in 1..MaxPlayers
    /\ deck \in ds
    /\ hands = <<>>
    /\ pile = <<>>
    /\ chances = 0
    /\ challenger = None
    /\ hand_index = 0
    /\ pc = "deal"
    /\ result = None

Init == Start({game_deck, pairs_deck})

InitLong == Start({long_deck})

\* deck = new_deck(); hands = deal(deck, num_players); pile = []; ...
Deal ==
    /\ pc = "deal"
    /\ \E d \in shuffle(deck) :
          /\ hands' = deal(d, num_players).hands
          /\ deck' = deal(d, num_players).deck
    /\ pile' = <<>>
    /\ chances' = 0
    /\ challenger' = None
    /\ hand_index' = 0
    /\ pc' = "loop"
    /\ UNCHANGED <<num_players, result>>

\* if sum(len(hand) > 0 for hand in hands) == 1: return turn, np.argmax(...)
Return ==
    /\ pc = "loop"
    /\ NonEmptyHands = 1
    /\ result' = argmax(hands)
    /\ pc' = "done"
    /\ UNCHANGED <<num_players, deck, hands, pile, chances, challenger,
                   hand_index>>

\* Variant of Skip: an empty-handed player's slot drops the open challenge.
Skip_clears_challenge ==
    /\ pc = "loop"
    /\ NonEmptyHands # 1
    /\ hands[hand_index] = <<>>
    /\ hand_index' = NextIndex
    /\ challenger' = None
    /\ chances' = 0
    /\ UNCHANGED <<num_players, deck, hands, pile, pc, result>>

\* if not hand: continue
Skip ==
    /\ pc = "loop"
    /\ NonEmptyHands # 1
    /\ hands[hand_index] = <<>>
    /\ hand_index' = NextIndex
    /\ UNCHANGED <<num_players, deck, hands, pile, chances, challenger,
                   pc, result>>

\* if challenger is None: one card, and a royal opens a challenge.
NormalPlay ==
    /\ pc = "loop"
    /\ NonEmptyHands # 1
    /\ hands[hand_index] # <<>>
    /\ challenger = None
    /\ LET new_card == Last(hands[hand_index])
       IN  /\ hands' = [hands EXCEPT ![hand_index] = Front(@)]
           /\ pile' = Append(pile, new_card)
           /\ IF new_card.face \in DOMAIN royal
              THEN /\ challenger' = hand_index
                   /\ chances' = royal[new_card.face]
              ELSE UNCHANGED <<challenger, chances>>
    /\ hand_index' = NextIndex
    /\ UNCHANGED <<num_players, deck, pc, result>>

\* Variant of PlayChance: chances -= 1 is forgotten.
PlayChance_not_counted ==
    /\ hands' = [hands EXCEPT ![hand_index] = Front(@)]
    /\ pile' = Append(pile, Last(hands[hand_index]))
    /\ chances' = chances
    /\ pc' = "played"
    /\ UNCHANGED <<num_players, deck, challenger, hand_index, result>>

\* One pass of the while body up to the slap check:
\* new_card = hand.pop(); pile.append(new_card); chances -= 1
PlayChance ==
    /\ hands' = [hands EXCEPT ![hand_index] = Front(@)]
    /\ pile' = Append(pile, Last(hands[hand_index]))
    /\ chances' = chances - 1
    /\ pc' = "played"
    /\ UNCHANGED <<num_players, deck, challenger, hand_index, result>>

\* Variant of AfterWhile: challenger = None is forgotten after the award.
AfterWhile_challenger_kept(h, p, ch, chal) ==
    /\ IF ch = 0
       THEN /\ hands' = [h EXCEPT ![chal] = extendleft(@, reversed(p))]
            /\ pile' = <<>>
       ELSE /\ hands' = h
            /\ pile' = p
    /\ challenger' = chal
    /\ chances' = ch
    /\ hand_index' = NextIndex
    /\ pc' = "loop"
    /\ UNCHANGED <<num_players, deck, result>>

\* Variant of AfterWhile: pile.clear() is forgotten after the award.
AfterWhile_pile_kept(h, p, ch, chal) ==
    /\ IF ch = 0
       THEN /\ hands' = [h EXCEPT ![chal] = extendleft(@, reversed(p))]
            /\ pile' = p
            /\ challenger' = None
       ELSE /\ hands' = h
            /\ pile' = p
            /\ challenger' = chal
    /\ chances' = ch
    /\ hand_index' = (hand_index + 1) % num_players
    /\ pc' = "loop"
    /\ UNCHANGED <<num_players, deck, result>>

\* The code after the while loop, run on the values h, p, ch the loop left:
\* if chances == 0: hands[challenger].extendleft(reversed(pile)); ...
\* and then the next iteration of the for loop.
AfterWhile(h, p, ch, chal) ==
    /\ IF ch = 0
       THEN /\ hands' = [h EXCEPT ![chal] = extendleft(@, reversed(p))]
            /\ pile' = <<>>
            /\ challenger' = None
       ELSE /\ hands' = h
            /\ pile' = p
            /\ challenger' = chal
    /\ chances' = ch
    /\ hand_index' = NextIndex
    /\ pc' = "loop"
    /\ UNCHANGED <<num_players, deck, result>>

\* Variant of ChallengedStep: the challenged branch is entered without the
\* return test before it.
ChallengedStep_before_return ==
    /\ pc = "loop"
    /\ hands[hand_index] # <<>>
    /\ challenger # None
    /\ IF chances > 0
       THEN PlayChance
       ELSE AfterWhile(hands, pile, chances, challenger)

\* else: while chances > 0 and hand: -- entering the challenged branch.
ChallengedStep ==
    /\ pc = "loop"
    /\ NonEmptyHands # 1
    /\ hands[hand_index] # <<>>
    /\ challenger # None
    /\ IF chances > 0
       THEN PlayChance
       ELSE AfterWhile(hands, pile, chances, challenger)

\* Variant of Slap: the royal test comes before the slap test.
Slap_royal_first(slapper) ==
    /\ pc = "played"
    /\ slappable(pile)
    /\ IF Last(pile).face \in DOMAIN royal
       THEN AfterWhile(hands, pile, royal[Last(pile).face], hand_index)
       ELSE AfterWhile([hands EXCEPT
                           ![slapper] = extendleft(@, reversed(pile))],
                       <<>>, 0, challenger)

\* Variant of Slap: chances = 0 is forgotten, the chances left stay owed.
Slap_chances_kept(slapper) ==
    /\ pc = "played"
    /\ slappable(pile)
    /\ AfterWhile([hands EXCEPT ![slapper] = extendleft(@, reversed(pile))],
                  <<>>, chances, challenger)

\* if slappable(pile): slapper = slap(); hands[slapper].extendleft(...);
\* pile.clear(); chances = 0; break
Slap(slapper) ==
    /\ pc = "played"
    /\ slappable(pile)
    /\ AfterWhile([hands EXCEPT ![slapper] = extendleft(@, reversed(pile))],
                  <<>>, 0, challenger)

\* if new_card.face in royal: challenger = hand_index; chances = ...; break
RoyalBreak ==
    /\ pc = "played"
    /\ ~slappable(pile)
    /\ Last(pile).face \in DOMAIN royal
    /\ AfterWhile(hands, pile, royal[Last(pile).face], hand_index)

\* Neither break taken and the while condition still holds: the next card.
NextChance ==
    /\ pc = "played"
    /\ ~slappable(pile)
    /\ Last(pile).face \notin DOMAIN royal
    /\ chances > 0 /\ hands[hand_index] # <<>>
    /\ PlayChance

\* Variant of WhileExit: when the hand runs out, the chances owed start again
\* at the value of the royal that opened the challenge.
WhileExit_chances_restart ==
    /\ pc = "played"
    /\ ~slappable(pile)
    /\ Last(pile).face \notin DOMAIN royal
    /\ ~(chances > 0 /\ hands[hand_index] # <<>>)
    /\ LET k == CHOOSE i \in DOMAIN pile :
                    /\ pile[i].face \in DOMAIN royal
                    /\ \A j \in DOMAIN pile :
                          j > i => pile[j].face \notin DOMAIN royal
       IN  AfterWhile(hands, pile,
                      IF chances > 0 THEN royal[pile[k].face] ELSE chances,
                      challenger)

\* Variant of WhileExit: the pile is awarded to the player who just played.
WhileExit_award_to_actor ==
    /\ pc = "played"
    /\ ~slappable(pile)
    /\ Last(pile).face \notin DOMAIN royal
    /\ ~(chances > 0 /\ hands[hand_index] # <<>>)
    /\ AfterWhile(hands, pile, chances, hand_index)

\* Neither break taken and the while condition fails.
WhileExit ==
    /\ pc = "played"
    /\ ~slappable(pile)
    /\ Last(pile).face \notin DOMAIN royal
    /\ ~(chances > 0 /\ hands[hand_index] # <<>>)
    /\ AfterWhile(hands, pile, chances, challenger)

\* The piles slappable is tried on: every list of at most MaxPileLen cards
\* taken from 2♣ 2♦ Q♣ Q♦ K♣ K♦, as in the assertions that follow its
\* definition.
SlapCards == {new_deck[i] : i \in {1, 2, 41, 42, 45, 46}}

SlapPiles == UNION {[1..k -> SlapCards] : k \in 0..MaxPileLen}

InitSlap ==
    /\ num_players = 1
    /\ deck = <<>>
    /\ hands = <<>>
    /\ pile \in SlapPiles
    /\ chances = 0
    /\ challenger = None
    /\ hand_index = 0
    /\ pc = "slappable"
    /\ result = FALSE

\* A call slappable(pile); the value returned is kept in result.
CallSlappable ==
    /\ pc = "slappable"
    /\ result' = slappable(pile)
    /\ pc' = "returned"
    /\ UNCHANGED <<num_players, deck, hands, pile, chances, challenger,
                   hand_index>>

SlapSpec == InitSlap /\ [][CallSlappable]_vars

\* One step of the for loop of simulate_game, or of its inner while loop.
Play ==
    \/ Return
    \/ Skip
    \/ NormalPlay
    \/ ChallengedStep
    \/ \E slapper \in Players : Slap(slapper)
    \/ RoyalBreak
    \/ NextChance
    \/ WhileExit

Next == Deal \/ Play

Spec == Init /\ [][Next]_vars

\* The interpreter keeps running the loop: a step that stays possible is
\* eventually taken.
FairSpec == InitLong /\ [][Next]_vars /\ WF_vars(Play)

\* The values a slap arbiter may return: every index of a list of up to
\* MaxPlayers hands, and values past either end of it.
SlapAnswers == (-(MaxPlayers + 1))..MaxPlayers

\* hands[v] on a Python list of n elements: a negative v counts from the end;
\* defined for -n <= v < n, IndexError otherwise.
ListIndex(v, n) == IF v >= 0 THEN v ELSE n + v

\* slapper = slap(); hands[slapper].extendleft(reversed(pile)); ... for any
\* value v the arbiter returns.  hands[slapper] raises IndexError before
\* anything is written: the card just played stays on the pile.
SlapAny(v) ==
    /\ pc = "played"
    /\ slappable(pile)
    /\ IF v \in (-num_players)..(num_players - 1)
       THEN Slap(ListIndex(v, num_players))
       ELSE /\ pc' = "error"
            /\ UNCHANGED <<num_players, deck, hands, pile, chances,
                           challenger, hand_index, result>>

\* for turn, hand_index in enumerate(cycle(range(num_players)), start=1)
\* with range(num_players) empty: the loop ends at once and simulate_game
\* falls off its end, returning None.
NoPlayers ==
    /\ pc = "loop"
    /\ num_players < 1
    /\ pc' = "done"
    /\ result' = None
    /\ UNCHANGED <<num_players, deck, hands, pile, chances, challenger,
                   hand_index>>

\* simulate_game called with any player count and any slap arbiter.
InitAny ==
    /\ num_players \in (-1)..MaxPlayers
    /\ deck = pairs_deck
    /\ hands = <<>>
    /\ pile = <<>>
    /\ chances = 0
    /\ challenger = None
    /\ hand_index = 0
    /\ pc = "deal"
    /\ result = None

\* The loop runs with one player or more; without players only NoPlayers
\* applies.
HasPlayers == num_players >= 1

NextAny ==
    \/ Deal
    \/ NoPlayers
    \/ HasPlayers /\ Return
    \/ HasPlayers /\ Skip
    \/ HasPlayers /\ NormalPlay
    \/ HasPlayers /\ ChallengedStep
    \/ HasPlayers /\ \E v \in SlapAnswers : SlapAny(v)
    \/ HasPlayers /\ RoyalBreak
    \/ HasPlayers /\ NextChance
    \/ HasPlayers /\ WhileExit

AnySpec == InitAny /\ [][NextAny]_vars

\* deal on its own: called with the first k cards of the deck, for every k up
\* to DeckSize, and with every player count from 1.
DealtDecks == {SubSeq(game_deck, 1, k) : k \in 0..DeckSize}

InitDeal ==
    /\ num_players \in 1..MaxPlayers
    /\ deck \in DealtDecks
    /\ hands = <<>>
    /\ pile = <<>>
    /\ chances = 0
    /\ challenger = None
    /\ hand_index = 0
    /\ pc = "deal"
    /\ result = None

DealSpec == InitDeal /\ [][Deal]_vars


(***************************************************************************)
(* Properties.                                                             *)
(***************************************************************************)

\* Every card lying in the pile or in a hand, as one sequence.
RECURSIVE HandsUpTo(_)
HandsUpTo(k) == IF k = 0 THEN <<>> ELSE HandsUpTo(k - 1) \o hands[k - 1]

OnTable == pile \o HandsUpTo(num_players)

\* How often card c occurs in the sequence t.
Occurrences(c, t) == Cardinality({i \in DOMAIN t : t[i] = c})

\* C1: once the cards are dealt, in every state of the game (after each
\* card played, after each slap transfer, after each award of the pile) the
\* hands and the pile together hold every card of the initial deck exactly
\* once and nothing else.
CardConservation ==
    pc # "deal" =>
        LET t == OnTable
        IN  \E d \in {game_deck, pairs_deck} :
                /\ Len(t) = Len(d)
                /\ \A c \in Range(d) : Occurrences(c, t) = 1

\* A pile of at least three cards has just been handed to a player who still
\* held cards: some hand is larger than any hand dealt.
WitnessConservation ==
    /\ pc = "loop"
    /\ pile = <<>>
    /\ num_players >= 2
    /\ \E i \in Players :
          Len(hands[i]) >= ((DeckSize + num_players - 1) \div num_players) + 2

WinnerHoldsWholeDeck ==
    (pc = "done" /\ num_players = 2) =>
        /\ pile = <<>>
        /\ \E i \in Players :
              /\ Len(hands[i]) = DeckSize
              /\ \A j \in Players \ {i} : hands[j] = <<>>

\* C4: when simulate_game returns, exactly one player has a non-empty hand
\* and the winner returned is that player.
WinnerIsSoleHolder ==
    pc = "done" =>
        \E i \in Players :
            /\ hands[i] # <<>>
            /\ \A j \in Players \ {i} : hands[j] = <<>>
            /\ result = i

\* A game of three has returned a winner other than player 0.
WitnessWinner ==
    /\ pc = "done"
    /\ num_players = 3
    /\ result = 2
    /\ hands[0] = <<>> /\ hands[1] = <<>>

\* The k-th card of a pile counted from its top (1 is the top card).
FromTop(p, k) == p[Len(p) + 1 - k]

\* Two piles of the same length whose cards agree in rank, position by
\* position.
SameRanks(p, q) ==
    /\ Len(p) = Len(q)
    /\ \A i \in DOMAIN p : p[i].face = q[i].face

\* C5: slappable(pile) is true exactly when the pile has at least two cards
\* and the top two share a rank, or at least three cards and the top and the
\* third from the top share a rank; it is false for piles of size 0 and 1,
\* and piles that differ only in suits get the same answer.
SlappableIffDoubleOrSandwich ==
    pc = "returned" =>
        /\ result <=>
              \/ Len(pile) >= 2 /\ FromTop(pile, 1).face = FromTop(pile, 2).face
              \/ Len(pile) >= 3 /\ FromTop(pile, 1).face = FromTop(pile, 3).face
        /\ Len(pile) <= 1 => ~result
        /\ \A q \in SlapPiles : SameRanks(pile, q) => (slappable(q) <=> result)

\* slappable has returned true for a sandwich that is not a double.
WitnessSandwich ==
    /\ pc = "returned"
    /\ result
    /\ Len(pile) = 3
    /\ FromTop(pile, 1).face = FromTop(pile, 3).face
    /\ FromTop(pile, 1).face # FromTop(pile, 2).face
    /\ FromTop(pile, 1).suite # FromTop(pile, 3).suite

\* The royal ranks and the number of chance cards each one demands.
RoyalRanks == {"Jack", "Queen", "King", "Ace"}

TableValue(rank) ==
    CASE rank = "Jack" -> 1
      [] rank = "Queen" -> 2
      [] rank = "King" -> 3
      [] rank = "Ace" -> 4

\* A chance card has just been played and the checks that follow it in the
\* while body are still to be made.
ChanceCardPlayed == pc = "played"

\* The hands after the whole pile went beneath the hand of player r.
PileGivenTo(r) == [hands EXCEPT ![r] = pile \o hands[r]]

\* C6: when the chance card just played brought chances to zero, did not
\* make the pile slappable and is no royal, the step ends with the whole
\* pile in the challenger's hand and in no other, the pile empty, no
\* challenger, no chances, and the turn with the player after the one who
\* played, in normal play.
ExhaustionAwardsChallenger ==
    [][(/\ ChanceCardPlayed
        /\ chances = 0
        /\ ~slappable(pile)
        /\ Last(pile).face \notin RoyalRanks)
       => (/\ hands' = PileGivenTo(challenger)
           /\ pile' = <<>>
           /\ challenger' = None
           /\ chances' = 0
           /\ pc' = "loop"
           /\ hand_index' = (hand_index + 1) % num_players)]_vars

\* The last of several owed chance cards has been played by a player other
\* than the challenger, who still holds cards; no slap, no royal.
WitnessExhaustion ==
    /\ ChanceCardPlayed
    /\ chances = 0
    /\ ~slappable(pile)
    /\ Last(pile).face \notin RoyalRanks
    /\ Len(pile) >= 3
    /\ FromTop(pile, 2).face \notin RoyalRanks
    /\ challenger # hand_index
    /\ hands[hand_index] # <<>>

\* C7: when the chance card just played is a royal and the pile is not
\* slappable, the player who played it becomes the challenger, chances is
\* the table value of that royal whatever was left before, the pile and all
\* hands stay as they are, and the step ends with the challenge open for the
\* next player in rotation.
RoyalInterrupt ==
    [][(/\ ChanceCardPlayed
        /\ ~slappable(pile)
        /\ Last(pile).face \in RoyalRanks)
       => (/\ challenger' = hand_index
           /\ chances' = TableValue(Last(pile).face)
           /\ pile' = pile
           /\ hands' = hands
           /\ pc' = "loop"
           /\ hand_index' = (hand_index + 1) % num_players)]_vars

\* A King was played as the first of the four chance cards owed to an Ace:
\* three chances were left, the previous challenger is another player.
WitnessRoyalInterrupt ==
    /\ ChanceCardPlayed
    /\ ~slappable(pile)
    /\ Last(pile).face = "King"
    /\ FromTop(pile, 2).face = "Ace"
    /\ chances = 3
    /\ challenger # hand_index
    /\ hands[hand_index] # <<>>

\* C8: when the chance card just played makes the pile slappable, the whole
\* pile goes beneath the hand of one player of the arbiter's choice (any
\* player), no other hand changes, the pile is empty, the challenge state is
\* (none, 0) and the step is over, whatever chances was.
SlapInterruptsChallenge ==
    [][(ChanceCardPlayed /\ slappable(pile))
       => (/\ \E s \in Players : hands' = PileGivenTo(s)
           /\ pile' = <<>>
           /\ challenger' = None
           /\ chances' = 0
           /\ pc' = "loop"
           /\ hand_index' = (hand_index + 1) % num_players)]_vars

\* A slappable pile while chance cards are still owed and the player who
\* played could go on; a third player has no cards.
WitnessSlap ==
    /\ ChanceCardPlayed
    /\ slappable(pile)
    /\ chances > 0
    /\ hands[hand_index] # <<>>
    /\ \E s \in Players : s # challenger /\ s # hand_index /\ hands[s] = <<>>

OpenChallengeKeepsGameGoing ==
    pc = "done" => ~(challenger # None /\ hands[challenger] = <<>>)

\* C11: an arbiter's answer outside 0..num_players-1, above or negative,
\* stops the game with an error: the pile is given to nobody and no hand
\* changes.
OutOfRangeSlapFails ==
    [][\A v \in SlapAnswers \ Players :
          SlapAny(v) => (pc' = "error" /\ hands' = hands /\ pile' = pile)]_vars

\* C12: with a player count below 1 neither deal nor simulate_game completes:
\* the call ends in an error and in nothing else.
NoPlayersFails == num_players < 1 => pc \in {"deal", "error"}

\* C13: no step ends with a slappable pile lying on the table: after every
\* card played, in normal play as in a challenge, a slappable pile is slapped
\* and handed over.
NoSlappablePileLeft == pc = "loop" => ~slappable(pile)

\* ceil(a / n) for n >= 1, and 0 when a is not positive.
CeilDiv(a, n) == IF a <= 0 THEN 0 ELSE (a + n - 1) \div n

\* The places (hand, position) at which card c lies in the hands hs.
PlacesOf(c, hs) ==
    {ik \in (DOMAIN hs) \X (1..DeckSize) :
        ik[2] \in DOMAIN hs[ik[1]] /\ hs[ik[1]][ik[2]] = c}

\* C14: deal with num_players >= 1 returns exactly num_players hands that
\* hold every card of the input deck once and nothing else; hand i holds
\* ceil((deck size - i) / num_players) cards, so sizes differ by at most one,
\* the earliest hands get the leftovers and hands beyond the deck size get
\* nothing; the input deck is left empty.
DealRoundRobin ==
    [][(pc = "deal" /\ num_players >= 1)
       => (/\ DOMAIN hands' = 0..(num_players - 1)
           /\ \A c \in Range(deck) : Cardinality(PlacesOf(c, hands')) = 1
           /\ \A i \in DOMAIN hands' :
                 /\ Range(hands'[i]) \subseteq Range(deck)
                 /\ Len(hands'[i]) = CeilDiv(Len(deck) - i, num_players)
           /\ \A i, j \in DOMAIN hands' :
                 /\ Len(hands'[i]) - Len(hands'[j]) \in {-1, 0, 1}
                 /\ i < j => Len(hands'[i]) >= Len(hands'[j])
           /\ deck' = <<>>)]_vars

\* Two cards were dealt to three players: the first two hands hold one card
\* each, the third none, and the deck is empty.
WitnessDeal ==
    /\ pc = "loop"
    /\ num_players = 3
    /\ Len(hands[0]) = 1 /\ Len(hands[1]) = 1 /\ hands[2] = <<>>
    /\ deck = <<>>
    /\ pile = <<>>

\* The turn has come to the player at hand_index and the game goes on.
TurnSlot == pc = "loop" /\ Cardinality({i \in Players : hands[i] # <<>>}) # 1

\* C15: when a challenged player's hand runs out while chances are still
\* owed (no slap, no royal), the step ends with pile, hands, challenger and
\* chances as they are and the turn passed on; slots of empty-handed players
\* leave the challenge as it is; and the player who plays the next chance
\* card goes on from the chances left: the first card counts one off that
\* value, under the same challenger.
ChanceInheritance ==
    [][/\ (/\ ChanceCardPlayed
           /\ chances > 0
           /\ hands[hand_index] = <<>>
           /\ ~slappable(pile)
           /\ Last(pile).face \notin RoyalRanks)
          => (/\ pile' = pile
              /\ hands' = hands
              /\ challenger' = challenger
              /\ chances' = chances
              /\ pc' = "loop"
              /\ hand_index' = (hand_index + 1) % num_players)
       /\ (TurnSlot /\ challenger # None /\ hands[hand_index] = <<>>)
          => (pile' = pile /\ challenger' = challenger /\ chances' = chances)
       /\ (TurnSlot /\ challenger # None /\ hands[hand_index] # <<>>)
          => (/\ hands'[hand_index] = Front(hands[hand_index])
              /\ chances' = chances - 1
              /\ challenger' = challenger)]_vars

\* A challenged player has played the last card of the hand with chances
\* still owed; the challenger and a third player both hold cards, so the
\* game goes on and the third player inherits the chances.
WitnessInheritance ==
    /\ ChanceCardPlayed
    /\ chances > 0
    /\ hands[hand_index] = <<>>
    /\ ~slappable(pile)
    /\ Last(pile).face \notin RoyalRanks
    /\ hands[challenger] # <<>>
    /\ \E j \in Players \ {hand_index, challenger} : hands[j] # <<>>

\* C16: a turn slot of a player with an empty hand changes no hand, not the
\* pile, not the challenger and not the chances: only the turn moves on.
\* The player keeps the slot: whoever holds cards when the slot comes (cards
\* received through a slap or an award included) plays the top card.
SkipRule ==
    [][/\ (TurnSlot /\ hands[hand_index] = <<>>)
          => (/\ hands' = hands
              /\ pile' = pile
              /\ challenger' = challenger
              /\ chances' = chances
              /\ pc' = "loop"
              /\ hand_index' = (hand_index + 1) % num_players)
       /\ (TurnSlot /\ hands[hand_index] # <<>>)
          => (/\ hands'[hand_index] = Front(hands[hand_index])
              /\ pile' = Append(pile, Last(hands[hand_index]))
              /\ \A j \in Players \ {hand_index} : hands'[j] = hands[j])]_vars

\* The slot of an empty-handed player comes while a challenge is open and two
\* other players hold cards.
WitnessSkip ==
    /\ TurnSlot
    /\ hands[hand_index] = <<>>
    /\ challenger # None
    /\ chances > 0
    /\ pile # <<>>

\* C17: when the chance card just played is a royal and makes the pile
\* slappable, the slap is resolved and the royal is ignored: the pile goes to
\* the player the arbiter picks, the player who played does not become
\* challenger, and the step ends with no challenger and no chances.
SlapBeatsRoyal ==
    [][(/\ ChanceCardPlayed
        /\ Last(pile).face \in RoyalRanks
        /\ \/ Len(pile) >= 2 /\ FromTop(pile, 1).face = FromTop(pile, 2).face
           \/ Len(pile) >= 3 /\ FromTop(pile, 1).face = FromTop(pile, 3).face)
       => (/\ \E s \in Players :
                 /\ hands'[s] = pile \o hands[s]
                 /\ \A j \in Players \ {s} : hands'[j] = hands[j]
           /\ pile' = <<>>
           /\ challenger' # hand_index
           /\ challenger' = None
           /\ chances' = 0
           /\ pc' = "loop")]_vars

\* A royal chance card lies on a royal of the same rank.
WitnessSlapOnRoyal ==
    /\ ChanceCardPlayed
    /\ Last(pile).face \in RoyalRanks
    /\ Len(pile) >= 2
    /\ FromTop(pile, 1).face = FromTop(pile, 2).face
    /\ challenger # hand_index

\* The state between two steps of the loop, the return included.
StepBoundary == pc \in {"loop", "done"}

\* C18: between steps, challenger is None exactly when chances is 0, chances
\* lies in 0..4, and an active challenger is a player index.
ChallengeStateConsistent ==
    StepBoundary =>
        /\ (challenger = None) <=> (chances = 0)
        /\ chances \in 0..4
        /\ challenger # None => challenger \in Players

\* A challenge is open between steps with all four chances of an Ace owed.
WitnessChallengeOpen ==
    /\ pc = "loop"
    /\ challenger \in Players
    /\ chances = 4
    /\ Last(pile).face = "Ace"

\* C19: between steps, with no challenge active the pile holds no royal;
\* with a challenge active the pile holds a royal, no card above the topmost
\* royal is a royal, and chances is that royal's table value less the number
\* of cards above it.
PileMatchesChallenge ==
    StepBoundary =>
        IF challenger = None
        THEN \A i \in DOMAIN pile : pile[i].face \notin RoyalRanks
        ELSE \E k \in DOMAIN pile :
                /\ pile[k].face \in RoyalRanks
                /\ \A j \in DOMAIN pile : j > k => pile[j].face \notin RoyalRanks
                /\ chances = TableValue(pile[k].face) - (Len(pile) - k)

\* A challenge is open between steps with two chance cards lying on the
\* royal and chances still owed.
WitnessCardsOnRoyal ==
    /\ pc = "loop"
    /\ challenger # None
    /\ chances > 0
    /\ Len(pile) >= 3
    /\ FromTop(pile, 3).face \in RoyalRanks
    /\ FromTop(pile, 2).face \notin RoyalRanks
    /\ FromTop(pile, 1).face \notin RoyalRanks

\* C20: with two players or more, the player who plays a chance card is
\* never the challenger of the challenge played against.
NoSelfChallenge ==
    (ChanceCardPlayed /\ num_players >= 2) => challenger # hand_index

\* A chance card has been played by the second player after the challenger:
\* the challenge has already passed one player by.
WitnessChallengeTravels ==
    /\ ChanceCardPlayed
    /\ num_players = 3
    /\ challenger # None
    /\ hand_index = (challenger + 2) % num_players

====
